---- MODULE Spec2Model ----
(***************************************************************************)
(* queries.js: runQueries() opens one MongoClient, awaits a fixed sequence *)
(* of operations on plp_bookstore.books, logs any error once and closes    *)
(* the client in the finally block.                                        *)
(*                                                                         *)
(* The books collection is a sequence of documents in natural order.  The  *)
(* database operators below follow the documented behaviour of the         *)
(* operations the script calls (first match in natural order for           *)
(* updateOne / findOne / deleteOne, unspecified order among equal sort     *)
(* keys, $mod with the sign of the dividend, idempotent createIndex).      *)
(* Prices are kept in cents, so $set price 15.99 is the integer 1599.      *)
(***************************************************************************)
EXTENDS Integers, Sequences, FiniteSets

VARIABLES
    client,         \* "new" | "connected" | "closed"   (const client, line 8)
    coll,           \* documents of plp_bookstore.books, in natural order
    indexes,        \* index keys of the collection, in creation order
    pc,             \* the operation runQueries is at, or "catch"/"finally"/"done"
    pending,        \* operations issued and not yet settled
    issued,         \* every operation issued so far, in issue order
    err,            \* the step that threw into the catch block, or "none"
    errLogged,      \* number of console.error calls (line 235)
    closeCalls,     \* number of client.close() calls (line 238)
    updateResult,   \* updateResult.modifiedCount, -1 before line 53
    updatedBook,    \* <<doc>> or <<>> (null) from findOne, line 60
    deleteResult,   \* deleteResult.deletedCount, -1 before line 65
    sortedAsc,      \* line 95
    sortedDesc,     \* line 102
    page1,          \* line 110
    page2,          \* line 117
    booksByDecade,  \* line 166
    indexList,      \* result of indexes(), line 229
    coll0           \* history: the collection when the run started

vars == << client, coll, indexes, pc, pending, issued, err, errLogged,
           closeCalls, updateResult, updatedBook, deleteResult, sortedAsc,
           sortedDesc, page1, page2, booksByDecade, indexList, coll0 >>

dbVars == << coll, indexes >>
resultVars == << updateResult, updatedBook, deleteResult, sortedAsc,
                 sortedDesc, page1, page2, booksByDecade, indexList >>

----------------------------------------------------------------------------
(* Bounds and the seeded documents the initial collections are drawn from. *)

NumBooks == 14

\* Titles in the order string comparison gives them.
TitleOrder ==
    << "1984", "Animal Farm", "Brave New World", "Moby Dick",
       "Pride and Prejudice", "The Alchemist", "The Catcher in the Rye",
       "The Great Gatsby", "The Hobbit", "The Lord of the Rings",
       "To Kill a Mockingbird", "Wuthering Heights" >>

\* Seed documents: twelve distinct titles, then a second copy of the two
\* titles the script updates and deletes; two pairs of equal prices; years
\* before year 0.
SeedTitle ==
    << 9, 1, 11, 5, 10, 2, 3, 4, 6, 8, 7, 12, 8, 7, 6 >>
SeedAuthor ==
    << "J.R.R. Tolkien", "George Orwell", "Harper Lee", "Jane Austen",
       "J.R.R. Tolkien", "George Orwell", "Aldous Huxley", "Herman Melville",
       "Paulo Coelho", "F. Scott Fitzgerald", "J.D. Salinger",
       "Emily Bronte", "Anonymous", "Anonymous", "Anonymous" >>
SeedGenre ==
    << "Fantasy", "Dystopian", "Fiction", "Romance", "Fantasy", "Satire",
       "Dystopian", "Adventure", "Fiction", "Fiction", "Fiction",
       "Gothic", "Fiction", "Fiction", "Fiction" >>
SeedYear ==
    << 1937, 1949, 1960, -380, 1954, 1958, 2011, -375, 1988, 1925, 1951,
       1847, -8, 1951, 2015 >>
SeedPrice ==
    << 1499, 999, 1299, 799, 1999, 999, 1199, 1099, 1399, 1250, 899,
       1799, 1599, 899, 2599 >>

Book(i) ==
    LET k == ((i - 1) % Len(SeedTitle)) + 1
    IN  [ id             |-> i,
          title          |-> TitleOrder[SeedTitle[k]],
          author         |-> SeedAuthor[k],
          genre          |-> SeedGenre[k],
          published_year |-> SeedYear[k],
          price          |-> SeedPrice[k],
          in_stock       |-> (i % 2 = 1) ]

Window(lo, hi) == [ i \in 1..(hi - lo + 1) |-> Book(lo + i - 1) ]

Reverse(s) == [ i \in 1..Len(s) |-> s[Len(s) + 1 - i] ]

InitialCollections ==
    {<<>>}
    \cup { Window(lo, hi) : lo \in 1..NumBooks, hi \in 1..NumBooks }
    \cup { Reverse(Window(lo, hi)) : lo \in 1..NumBooks, hi \in 1..NumBooks }

----------------------------------------------------------------------------
(* Parameters the script passes to the driver.                             *)

GatsbyTitle  == "The Great Gatsby"
CatcherTitle == "The Catcher in the Rye"
NewPrice     == 1599
PageSize     == 5
Page2Skip    == 5
DecadeSpan   == 10

IdIndex         == << <<"_id", 1>> >>
TitleIndex      == << <<"title", 1>> >>
AuthorYearIndex == << <<"author", 1>>, <<"published_year", 1>> >>

InitialIndexes ==
    { <<IdIndex>> \o s :
        s \in { <<>>, <<TitleIndex>>, <<AuthorYearIndex>>,
                <<TitleIndex, AuthorYearIndex>> } }

----------------------------------------------------------------------------
(* Sequence helpers.                                                       *)

Range(s) == { s[i] : i \in 1..Len(s) }

Min(a, b) == IF a <= b THEN a ELSE b

\* s without its element at position i.
RemoveAt(s, i) == [ j \in 1..(Len(s) - 1) |-> IF j < i THEN s[j] ELSE s[j + 1] ]

\* Positions of the documents of c with the given title, and the first one.
Matches(c, title) == { i \in 1..Len(c) : c[i].title = title }

FirstMatch(c, title) ==
    CHOOSE i \in Matches(c, title) : \A j \in Matches(c, title) : i <= j

----------------------------------------------------------------------------
(* The collection operations the script calls.                             *)

\* Mutant of UpdateOne: the $set misses the price field, the count is still
\* reported.
UpdateOnePriceUntouched(c, title, price) ==
    [ coll          |-> c,
      matchedCount  |-> IF Matches(c, title) = {} THEN 0 ELSE 1,
      modifiedCount |-> IF Matches(c, title) = {} THEN 0 ELSE 1 ]

\* updateOne({title}, {$set: {price}}): the first matching document gets the
\* price; modifiedCount counts it only when its price actually changed.
UpdateOne(c, title, price) ==
    IF Matches(c, title) = {}
    THEN [ coll |-> c, matchedCount |-> 0, modifiedCount |-> 0 ]
    ELSE LET i == FirstMatch(c, title)
         IN  [ coll          |-> [ c EXCEPT ![i].price = price ],
               matchedCount  |-> 1,
               modifiedCount |-> IF c[i].price = price THEN 0 ELSE 1 ]

\* findOne({title}): the first matching document, or null (here <<>>).
FindOne(c, title) ==
    IF Matches(c, title) = {} THEN <<>> ELSE << c[FirstMatch(c, title)] >>

\* Mutant of DeleteOne: the filter matches no document.
DeleteOneNoMatch(c, title) == [ coll |-> c, deletedCount |-> 0 ]

\* Mutant of DeleteOne: deleteMany, every matching document goes.
DeleteMany(c, title) ==
    [ coll         |-> SelectSeq(c, LAMBDA d : d.title # title),
      deletedCount |-> Cardinality(Matches(c, title)) ]

\* deleteOne({title}): removes the first matching document.
DeleteOne(c, title) ==
    IF Matches(c, title) = {}
    THEN [ coll |-> c, deletedCount |-> 0 ]
    ELSE [ coll |-> RemoveAt(c, FirstMatch(c, title)), deletedCount |-> 1 ]

\* The value a sort compares: strings by their rank in string order.
TitleRank(t) == CHOOSE r \in 1..Len(TitleOrder) : TitleOrder[r] = t

SortKey(d, field) == IF field = "title" THEN TitleRank(d.title) ELSE d[field]

\* Mutant of InOrder: the sort direction is ignored.
InOrderAscending(a, b, dir) == a <= b

\* Whether key a may come before key b under sort direction dir (1 or -1).
InOrder(a, b, dir) == IF dir = 1 THEN a <= b ELSE a >= b

\* sort({field: dir}): every ordering of the documents that respects the
\* sort key; documents with equal keys come in any order.
RECURSIVE SortedSeqs(_, _, _)
SortedSeqs(S, field, dir) ==
    IF S = {} THEN { <<>> }
    ELSE LET firsts == { d \in S : \A e \in S :
                            InOrder(SortKey(d, field), SortKey(e, field), dir) }
         IN  UNION { { <<d>> \o t : t \in SortedSeqs(S \ {d}, field, dir) }
                     : d \in firsts }

\* Mutant of Skip: one document too few is skipped.
SkipOneLess(s, n) == IF n = 0 THEN s ELSE SubSeq(s, n, Len(s))

\* skip(n) and limit(n) of a cursor.
Skip(s, n) == SubSeq(s, n + 1, Len(s))
Limit(s, n) == SubSeq(s, 1, Min(n, Len(s)))

\* projection with _id: 0: the document restricted to the listed fields.
Project(d, fields) == [ f \in fields |-> d[f] ]
ProjectAll(s, fields) == [ i \in 1..Len(s) |-> Project(s[i], fields) ]

\* find({}, {projection}).sort({field: dir}).skip(n).limit(m).toArray():
\* the results the server may return.
FindSorted(c, fields, field, dir, skip, limit) ==
    { ProjectAll(Limit(Skip(s, skip), limit), fields)
        : s \in SortedSeqs(Range(c), field, dir) }

\* Mutant of Mod: the remainder is never negative (floored division).
FlooredMod(a, b) == a % b

\* $mod: the remainder has the sign of the dividend.
Mod(a, b) == IF a >= 0 THEN a % b ELSE -((-a) % b)

\* $subtract: [year, {$mod: [year, 10]}]
Decade(year) == year - Mod(year, DecadeSpan)

\* Ascending sequence of a set of integers ($sort: {_id: 1} on group keys).
Ascending(S) ==
    [ k \in 1..Cardinality(S) |->
        CHOOSE x \in S : Cardinality({ y \in S : y <= x }) = k ]

\* Titles of the documents of c in the given decade, in the order the
\* documents enter the $group stage ($push).
PushTitles(c, decade) ==
    LET members == { i \in 1..Len(c) : Decade(c[i].published_year) = decade }
        nth == Ascending(members)
    IN  [ k \in 1..Len(nth) |-> c[nth[k]].title ]

\* aggregate([$project decade, $group by decade, $sort _id ascending])
BooksByDecadeAgg(c) ==
    LET keys == Ascending({ Decade(c[i].published_year) : i \in 1..Len(c) })
    IN  [ g \in 1..Len(keys) |->
            [ id        |-> keys[g],
              bookCount |-> Len(PushTitles(c, keys[g])),
              books     |-> PushTitles(c, keys[g]) ] ]

\* Mutant of CreateIndex: only the first field of the key is indexed.
CreateIndexFirstField(ix, key) ==
    IF << key[1] >> \in Range(ix) THEN ix ELSE Append(ix, << key[1] >>)

\* createIndex(key): adds the index unless one with that key exists.
CreateIndex(ix, key) == IF key \in Range(ix) THEN ix ELSE Append(ix, key)

----------------------------------------------------------------------------
(* runQueries: the awaited operations of the try block, in program order.  *)

Program ==
    << "connect", "findFantasy", "findRecent", "findTolkien", "updateOne",
       "findOne", "deleteOne", "findInStockRecent", "findProjected",
       "sortedAsc", "sortedDesc", "page1", "page2", "avgPriceByGenre",
       "topAuthor", "booksByDecade", "createIndexTitle",
       "createIndexAuthorYear", "explainWithoutIndex", "explainWithIndex",
       "indexes" >>

Position(op) == CHOOSE i \in 1..Len(Program) : Program[i] = op

\* Where control goes when the await of op resolves and its statement ends.
After(op) ==
    IF Position(op) = Len(Program) THEN "finally"
    ELSE Program[Position(op) + 1]

Init ==
    /\ client = "new"
    /\ coll \in InitialCollections
    /\ coll0 = coll
    /\ indexes \in InitialIndexes
    /\ pc = "connect"
    /\ pending = {}
    /\ issued = <<>>
    /\ err = "none"
    /\ errLogged = 0
    /\ closeCalls = 0
    /\ updateResult = -1
    /\ updatedBook = <<>>
    /\ deleteResult = -1
    /\ sortedAsc = <<>>
    /\ sortedDesc = <<>>
    /\ page1 = <<>>
    /\ page2 = <<>>
    /\ booksByDecade = <<>>
    /\ indexList = <<>>

\* Mutant of Issue: the call is not awaited, control moves on at once.
IssueWithoutAwait ==
    /\ pc \in Range(Program)
    /\ pc \notin pending
    /\ pending' = pending \cup {pc}
    /\ issued' = Append(issued, pc)
    /\ pc' = After(pc)
    /\ UNCHANGED << client, dbVars, err, errLogged, closeCalls, resultVars,
                    coll0 >>

\* The call expression of an awaited operation: the request goes out and
\* runQueries is suspended until the promise settles.
Issue ==
    /\ pc \in Range(Program)
    /\ pc \notin pending
    /\ pending' = pending \cup {pc}
    /\ issued' = Append(issued, pc)
    /\ UNCHANGED << client, dbVars, pc, err, errLogged, closeCalls,
                    resultVars, coll0 >>

\* The promise of op resolves: op leaves the pending set and control moves
\* to the next statement.
Resolved(op) ==
    /\ pc = op
    /\ op \in pending
    /\ pending' = pending \ {op}
    /\ pc' = After(op)
    /\ UNCHANGED << issued, err, errLogged, closeCalls, coll0 >>

\* A read whose result is only printed.
ReadOnly(op) ==
    /\ Resolved(op)
    /\ UNCHANGED << client, dbVars, resultVars >>

\* line 12: await client.connect()
Connect ==
    /\ Resolved("connect")
    /\ client' = "connected"
    /\ UNCHANGED << dbVars, resultVars >>

\* line 32: find({genre: "Fantasy"})
FindFantasy == ReadOnly("findFantasy")

\* line 39: find({published_year: {$gt: 2000}})
FindRecent == ReadOnly("findRecent")

\* line 46: find({author: "J.R.R. Tolkien"})
FindTolkien == ReadOnly("findTolkien")

\* lines 53-57: updateOne on the title, $set price
UpdateOneStep ==
    /\ Resolved("updateOne")
    /\ LET r == UpdateOne(coll, GatsbyTitle, NewPrice)
       IN  /\ coll' = r.coll
           /\ updateResult' = r.modifiedCount
    /\ UNCHANGED << client, indexes, updatedBook, deleteResult, sortedAsc,
                    sortedDesc, page1, page2, booksByDecade, indexList >>

\* lines 60-61: findOne, then updatedBook.price is read: a null result
\* throws a TypeError into the catch block.
FindOneStep ==
    /\ pc = "findOne"
    /\ "findOne" \in pending
    /\ pending' = pending \ {"findOne"}
    /\ updatedBook' = FindOne(coll, GatsbyTitle)
    /\ IF updatedBook' = <<>>
       THEN /\ pc' = "catch"
            /\ err' = "findOne"
       ELSE /\ pc' = After("findOne")
            /\ err' = err
    /\ UNCHANGED << client, dbVars, issued, errLogged, closeCalls,
                    updateResult, deleteResult, sortedAsc, sortedDesc, page1,
                    page2, booksByDecade, indexList, coll0 >>

\* lines 65-66: deleteOne on the title
DeleteOneStep ==
    /\ Resolved("deleteOne")
    /\ LET r == DeleteOne(coll, CatcherTitle)
       IN  /\ coll' = r.coll
           /\ deleteResult' = r.deletedCount
    /\ UNCHANGED << client, indexes, updateResult, updatedBook, sortedAsc,
                    sortedDesc, page1, page2, booksByDecade, indexList >>

\* line 77: find({in_stock: true, published_year: {$gt: 2010}})
FindInStockRecent == ReadOnly("findInStockRecent")

\* line 87: find({genre: "Fantasy"}, {projection})
FindProjected == ReadOnly("findProjected")

\* lines 95-98: sort({price: 1}).limit(5)
SortedAscStep ==
    /\ Resolved("sortedAsc")
    /\ sortedAsc' \in FindSorted(coll, {"title", "price"}, "price", 1, 0, PageSize)
    /\ UNCHANGED << client, dbVars, updateResult, updatedBook, deleteResult,
                    sortedDesc, page1, page2, booksByDecade, indexList >>

\* lines 102-105: sort({price: -1}).limit(5)
SortedDescStep ==
    /\ Resolved("sortedDesc")
    /\ sortedDesc' \in FindSorted(coll, {"title", "price"}, "price", -1, 0, PageSize)
    /\ UNCHANGED << client, dbVars, updateResult, updatedBook, deleteResult,
                    sortedAsc, page1, page2, booksByDecade, indexList >>

\* lines 110-113: sort({title: 1}).limit(5).skip(0)
Page1Step ==
    /\ Resolved("page1")
    /\ page1' \in FindSorted(coll, {"title", "author"}, "title", 1, 0, PageSize)
    /\ UNCHANGED << client, dbVars, updateResult, updatedBook, deleteResult,
                    sortedAsc, sortedDesc, page2, booksByDecade, indexList >>

\* lines 117-120: sort({title: 1}).limit(5).skip(5)
Page2Step ==
    /\ Resolved("page2")
    /\ page2' \in FindSorted(coll, {"title", "author"}, "title", 1, Page2Skip, PageSize)
    /\ UNCHANGED << client, dbVars, updateResult, updatedBook, deleteResult,
                    sortedAsc, sortedDesc, page1, booksByDecade, indexList >>

\* line 132: aggregate, average price by genre
AvgPriceByGenre == ReadOnly("avgPriceByGenre")

\* line 148: aggregate, authors by book count
TopAuthor == ReadOnly("topAuthor")

\* lines 166-189: aggregate, books by decade
BooksByDecadeStep ==
    /\ Resolved("booksByDecade")
    /\ booksByDecade' = BooksByDecadeAgg(coll)
    /\ UNCHANGED << client, dbVars, updateResult, updatedBook, deleteResult,
                    sortedAsc, sortedDesc, page1, page2, indexList >>

\* line 201: createIndex({title: 1})
CreateIndexTitle ==
    /\ Resolved("createIndexTitle")
    /\ indexes' = CreateIndex(indexes, TitleIndex)
    /\ UNCHANGED << client, coll, resultVars >>

\* line 206: createIndex({author: 1, published_year: 1})
CreateIndexAuthorYear ==
    /\ Resolved("createIndexAuthorYear")
    /\ indexes' = CreateIndex(indexes, AuthorYearIndex)
    /\ UNCHANGED << client, coll, resultVars >>

\* line 214: find({title}).explain("executionStats")
ExplainWithoutIndex == ReadOnly("explainWithoutIndex")

\* line 221: find({title}).hint({title: 1}).explain("executionStats");
\* the hint names an index that must exist.
ExplainWithIndex ==
    /\ TitleIndex \in Range(indexes)
    /\ ReadOnly("explainWithIndex")

\* line 229: indexes()
IndexesStep ==
    /\ Resolved("indexes")
    /\ indexList' = indexes
    /\ UNCHANGED << client, dbVars, updateResult, updatedBook, deleteResult,
                    sortedAsc, sortedDesc, page1, page2, booksByDecade >>

\* The promise of the pending operation rejects (connection, server or
\* query error): the exception leaves the try block at line 234.
Reject ==
    /\ pc \in Range(Program)
    /\ pc \in pending
    /\ pending' = pending \ {pc}
    /\ err' = pc
    /\ pc' = "catch"
    /\ UNCHANGED << client, dbVars, issued, errLogged, closeCalls,
                    resultVars, coll0 >>

\* Mutant of Catch: the handler ends the process, the finally block is
\* skipped.
CatchExits ==
    /\ pc = "catch"
    /\ errLogged' = errLogged + 1
    /\ pc' = "done"
    /\ UNCHANGED << client, dbVars, pending, issued, err, closeCalls,
                    resultVars, coll0 >>

\* Mutant of Catch: the handler undoes the writes of the run.
CatchRollsBack ==
    /\ pc = "catch"
    /\ errLogged' = errLogged + 1
    /\ pc' = "finally"
    /\ coll' = coll0
    /\ UNCHANGED << client, indexes, pending, issued, err, closeCalls,
                    resultVars, coll0 >>

\* lines 234-236: console.error, once
Catch ==
    /\ pc = "catch"
    /\ errLogged' = errLogged + 1
    /\ pc' = "finally"
    /\ UNCHANGED << client, dbVars, pending, issued, err, closeCalls,
                    resultVars, coll0 >>

\* lines 236-238: the finally block calls client.close()
Finally ==
    /\ pc = "finally"
    /\ closeCalls' = closeCalls + 1
    /\ pending' = pending \cup {"close"}
    /\ issued' = Append(issued, "close")
    /\ pc' = "close"
    /\ UNCHANGED << client, dbVars, err, errLogged, resultVars, coll0 >>

\* lines 238-240: close() resolves, runQueries returns
Close ==
    /\ pc = "close"
    /\ "close" \in pending
    /\ pending' = pending \ {"close"}
    /\ client' = "closed"
    /\ pc' = "done"
    /\ UNCHANGED << dbVars, issued, err, errLogged, closeCalls, resultVars,
                    coll0 >>

Next ==
    \/ Issue
    \/ Connect
    \/ FindFantasy
    \/ FindRecent
    \/ FindTolkien
    \/ UpdateOneStep
    \/ FindOneStep
    \/ DeleteOneStep
    \/ FindInStockRecent
    \/ FindProjected
    \/ SortedAscStep
    \/ SortedDescStep
    \/ Page1Step
    \/ Page2Step
    \/ AvgPriceByGenre
    \/ TopAuthor
    \/ BooksByDecadeStep
    \/ CreateIndexTitle
    \/ CreateIndexAuthorYear
    \/ ExplainWithoutIndex
    \/ ExplainWithIndex
    \/ IndexesStep
    \/ Reject
    \/ Catch
    \/ Finally
    \/ Close

Spec == Init /\ [][Next]_vars

----------------------------------------------------------------------------
(* Vocabulary of the properties.                                           *)

\* op was issued and its promise has settled.
Settled(op) == op \in Range(issued) /\ op \notin pending

\* op was issued and its statement finished without throwing.
Completed(op) == Settled(op) /\ err # op

Ids(c) == { c[i].id : i \in 1..Len(c) }

DocOf(c, id) == c[CHOOSE i \in 1..Len(c) : c[i].id = id]

TitleCount(c, title) == Cardinality({ i \in 1..Len(c) : c[i].title = title })

\* Number of positions of s that hold x.
Occurrences(s, x) == Cardinality({ i \in 1..Len(s) : s[i] = x })

Last(s) == s[Len(s)]

----------------------------------------------------------------------------
(* C1: every run of runQueries, failed or not (a failed connect included), *)
(* goes on until it has ended, and it ends with client.close() called      *)
(* exactly once, as the last operation issued, nothing pending and the     *)
(* client closed.  Every step brings the run closer to its end, no run     *)
(* stops before its end, and close() is never called twice.                *)
StepsLeft ==
    IF pc = "done" THEN 0
    ELSE IF pc = "close" THEN 1
    ELSE IF pc = "finally" THEN 2
    ELSE IF pc = "catch" THEN 3
    ELSE 2 * (Len(Program) - Position(pc) + 1) + 3
         - (IF pc \in pending THEN 1 ELSE 0)

C1_ClosedOnceAtEnd ==
    /\ []( /\ closeCalls <= 1
           /\ pc # "done" => ENABLED Next
           /\ pc = "done" =>
                 /\ closeCalls = 1
                 /\ client = "closed"
                 /\ pending = {}
                 /\ Last(issued) = "close"
                 /\ Occurrences(issued, "close") = 1 )
    /\ [][StepsLeft' < StepsLeft]_vars

\* A run whose connect failed has ended with the one close() call.
C1_Witness ==
    /\ pc = "done"
    /\ err = "connect"
    /\ closeCalls = 1
    /\ client = "closed"

----------------------------------------------------------------------------
(* C2: once a step has thrown, the operations issued are exactly the steps *)
(* up to it, each once (no later step, no retry), plus the closing call;   *)
(* the error is logged once; and the collection and its indexes hold       *)
(* every write of the steps that completed before it.                      *)
StepsBefore(op) == SubSeq(Program, 1, Position(op))

WritesBefore(op) ==
    LET updated == IF Position(op) > Position("updateOne")
                   THEN UpdateOne(coll0, GatsbyTitle, NewPrice).coll
                   ELSE coll0
    IN  IF Position(op) > Position("deleteOne")
        THEN DeleteOne(updated, CatcherTitle).coll
        ELSE updated

C2_AbortKeepsWrites ==
    err # "none" =>
        /\ issued \in { StepsBefore(err), Append(StepsBefore(err), "close") }
        /\ errLogged = (IF pc = "catch" THEN 0 ELSE 1)
        /\ coll = WritesBefore(err)
        /\ Position(err) > Position("createIndexTitle")
              => TitleIndex \in Range(indexes)
        /\ Position(err) > Position("createIndexAuthorYear")
              => AuthorYearIndex \in Range(indexes)

\* A run that failed after the update, the delete and both createIndex
\* calls had taken effect has ended.
C2_Witness ==
    /\ pc = "done"
    /\ err = "explainWithIndex"
    /\ updateResult = 1
    /\ deleteResult = 1
    /\ coll # coll0
    /\ Len(indexes) = 3

----------------------------------------------------------------------------
(* C3 as stated: after the price update step a document with the targeted *)
(* title has the new price and the modified-count is 0 or 1, whatever the  *)
(* collection held.                                                        *)
C3_Original ==
    Settled("findOne") =>
        /\ updateResult \in {0, 1}
        /\ \E i \in 1..Len(coll) :
              coll[i].title = GatsbyTitle /\ coll[i].price = NewPrice

(* C3 amended: after the price update step the modified-count is 0 or 1;   *)
(* if the collection held a document with the targeted title, a document   *)
(* with that title has the new price and it is the one findOne returns;    *)
(* if it held none, nothing is modified, findOne returns null and the      *)
(* step throws.                                                            *)
C3_UpdateSetsPrice ==
    Settled("findOne") =>
        /\ updateResult \in {0, 1}
        /\ TitleCount(coll0, GatsbyTitle) > 0 =>
              /\ \E i \in 1..Len(coll) :
                    coll[i].title = GatsbyTitle /\ coll[i].price = NewPrice
              /\ err = "findOne" \/
                    /\ Len(updatedBook) = 1
                    /\ updatedBook[1].title = GatsbyTitle
                    /\ updatedBook[1].price = NewPrice
        /\ TitleCount(coll0, GatsbyTitle) = 0 =>
              /\ updateResult = 0
              /\ TitleCount(coll, GatsbyTitle) = 0
              /\ err = "findOne"

\* The update step has run on a collection with several documents of the
\* title, changed one and read it back.
C3_Witness ==
    /\ Completed("findOne")
    /\ TitleCount(coll0, GatsbyTitle) > 1
    /\ updateResult = 1
    /\ updatedBook[1].price = NewPrice

----------------------------------------------------------------------------
(* C4 as stated: after the delete step no document with the targeted       *)
(* title exists and the deleted-count is 0 or 1, whatever the collection   *)
(* held.                                                                   *)
C4_Original ==
    Completed("deleteOne") =>
        /\ deleteResult \in {0, 1}
        /\ TitleCount(coll, CatcherTitle) = 0

(* C4 amended: after the delete step the deleted-count is 0 or 1, exactly  *)
(* that many documents with the targeted title were removed, and none      *)
(* remains provided the collection held at most one document with that     *)
(* title.                                                                  *)
C4_DeleteRemovesOne ==
    Completed("deleteOne") =>
        /\ deleteResult \in {0, 1}
        /\ TitleCount(coll, CatcherTitle) + deleteResult
              = TitleCount(coll0, CatcherTitle)
        /\ Len(coll) + deleteResult = Len(coll0)
        /\ TitleCount(coll0, CatcherTitle) <= 1
              => TitleCount(coll, CatcherTitle) = 0

\* The delete step has removed the only document with the title.
C4_Witness ==
    /\ Completed("deleteOne")
    /\ TitleCount(coll0, CatcherTitle) = 1
    /\ deleteResult = 1
    /\ TitleCount(coll, CatcherTitle) = 0

----------------------------------------------------------------------------
(* C5 as stated: the descending price read returns the documents of the    *)
(* ascending price read in reversed order, whatever the collection holds.  *)
C5_Original ==
    Completed("sortedDesc") => sortedDesc = Reverse(sortedAsc)

DistinctPrices(c) ==
    \A i, j \in 1..Len(c) : c[i].price = c[j].price => i = j

(* C5 amended: when the collection holds at most 5 documents, the two      *)
(* price reads return the same documents, and in exactly reversed order    *)
(* when no two documents have the same price.                              *)
C5_ReversedWithinLimit ==
    Completed("sortedDesc") /\ Len(coll) <= PageSize =>
        /\ Len(sortedAsc) = Len(coll)
        /\ Len(sortedDesc) = Len(coll)
        /\ \A x \in Range(sortedAsc) \cup Range(sortedDesc) :
              Occurrences(sortedAsc, x) = Occurrences(sortedDesc, x)
        /\ DistinctPrices(coll) => sortedDesc = Reverse(sortedAsc)

\* Both price reads are done on a collection of 3 to 5 documents with
\* distinct prices.
C5_Witness ==
    /\ Completed("sortedDesc")
    /\ Len(coll) \in 3..PageSize
    /\ DistinctPrices(coll)
    /\ Len(sortedAsc) = Len(coll)
    /\ sortedAsc[1].price < sortedAsc[2].price

----------------------------------------------------------------------------
(* C6 as stated: the two pages are disjoint and together hold every        *)
(* document of the collection exactly once, whatever the collection holds. *)
ProjectedDocs(c, fields) == { Project(c[i], fields) : i \in 1..Len(c) }

C6_Original ==
    Completed("page2") =>
        /\ Range(page1) \cap Range(page2) = {}
        /\ Len(page1) + Len(page2) = Len(coll)
        /\ Range(page1) \cup Range(page2)
              = ProjectedDocs(coll, {"title", "author"})

DistinctTitles(c) ==
    \A i, j \in 1..Len(c) : c[i].title = c[j].title => i = j

(* C6 amended: when no two documents have the same title, the two pages    *)
(* are disjoint and page 1 followed by page 2 is the first 10 documents of *)
(* the title-sorted collection without duplicates: the whole collection    *)
(* when it holds at most 10 documents.                                     *)
C6_PagesPartitionFirstTen ==
    Completed("page2") /\ DistinctTitles(coll) =>
        LET both == page1 \o page2
        IN  /\ Range(page1) \cap Range(page2) = {}
            /\ Len(page1) = Min(PageSize, Len(coll))
            /\ Len(both) = Min(Page2Skip + PageSize, Len(coll))
            /\ Range(both) \subseteq ProjectedDocs(coll, {"title", "author"})
            /\ \A i, j \in 1..Len(both) :
                  i < j => TitleRank(both[i].title) < TitleRank(both[j].title)
            /\ \A k \in 1..Len(coll) :
                  Project(coll[k], {"title", "author"}) \notin Range(both)
                     => \A i \in 1..Len(both) :
                           TitleRank(both[i].title) < TitleRank(coll[k].title)

\* Both pages are read from a collection of more than 10 documents with
\* distinct titles.
C6_Witness ==
    /\ Completed("page2")
    /\ DistinctTitles(coll)
    /\ Len(coll) > Page2Skip + PageSize
    /\ Len(page2) = PageSize

----------------------------------------------------------------------------
(* C7 as stated: every document is counted in the group whose key is       *)
(* floor(published_year / 10) * 10, negative years included.               *)
FloorDecade(year) == (year \div DecadeSpan) * DecadeSpan

GroupKeys == { booksByDecade[g].id : g \in 1..Len(booksByDecade) }

C7_Original ==
    Completed("booksByDecade") =>
        \A i \in 1..Len(coll) : FloorDecade(coll[i].published_year) \in GroupKeys

\* k is year rounded toward zero to a multiple of 10.
TowardZeroDecade(year, k) ==
    /\ k % DecadeSpan = 0
    /\ IF year >= 0 THEN k <= year /\ year < k + DecadeSpan
                    ELSE k - DecadeSpan < year /\ year <= k

\* Titles of s as a bag: how often each title occurs.
SameTitles(titles, S) ==
    /\ Len(titles) = Cardinality(S)
    /\ \A t \in Range(titles) :
          Occurrences(titles, t) = Cardinality({ i \in S : coll[i].title = t })

(* C7 amended: the decade aggregation assigns every document to the group  *)
(* whose key is published_year rounded toward zero to a multiple of 10     *)
(* (floor(year/10)*10 for years from 0 on and for multiples of 10, the     *)
(* next multiple of 10 above the year for other negative years); each      *)
(* group's bookCount is the number of its documents, its title list is     *)
(* exactly their titles, and the groups come in ascending key order.       *)
C7_DecadeGroups ==
    Completed("booksByDecade") =>
        /\ \A i \in 1..Len(coll) : \E g \in 1..Len(booksByDecade) :
              TowardZeroDecade(coll[i].published_year, booksByDecade[g].id)
        /\ \A g \in 1..Len(booksByDecade) :
              LET members == { i \in 1..Len(coll) :
                    TowardZeroDecade(coll[i].published_year, booksByDecade[g].id) }
              IN  /\ members # {}
                  /\ booksByDecade[g].bookCount = Cardinality(members)
                  /\ SameTitles(booksByDecade[g].books, members)
        /\ \A g, h \in 1..Len(booksByDecade) :
              g < h => booksByDecade[g].id < booksByDecade[h].id

\* The aggregation has run on a collection with a negative year that is no
\* multiple of 10 and with a decade of more than one document.
C7_Witness ==
    /\ Completed("booksByDecade")
    /\ \E i \in 1..Len(coll) :
          coll[i].published_year < 0 /\ coll[i].published_year % DecadeSpan # 0
    /\ \E g \in 1..Len(booksByDecade) : booksByDecade[g].bookCount > 1

----------------------------------------------------------------------------
(* C8: in a run that reaches the index listing, the list holds an entry    *)
(* with key {title: 1} and one with key {author: 1, published_year: 1},    *)
(* whether or not these indexes existed before the run.                    *)
C8_ListingHasCreatedIndexes ==
    Completed("indexes") =>
        /\ TitleIndex \in Range(indexList)
        /\ AuthorYearIndex \in Range(indexList)

\* The listing is done in a run that found the compound index in place and
\* created the title index itself.
C8_Witness ==
    /\ Completed("indexes")
    /\ indexList = << IdIndex, AuthorYearIndex, TitleIndex >>

----------------------------------------------------------------------------
(* C9 as stated: at most one operation is in flight, and every operation   *)
(* of the order connect, ..., indexes, close is issued only after the one  *)
(* before it in that order has completed successfully.                     *)
FullOrder == Append(Program, "close")

C9_Original ==
    /\ Cardinality(pending) <= 1
    /\ \A k \in 1..Len(issued) :
          /\ issued[k] = FullOrder[k]
          /\ k > 1 => issued[k - 1] \notin pending /\ err # issued[k - 1]

(* C9 amended: at most one operation is in flight; the operations of the   *)
(* try block are issued in program order, each only after the one before   *)
(* it has completed successfully; close is issued once, last, after the    *)
(* last operation issued has settled, successfully or with an error.       *)
C9_Sequential ==
    /\ Cardinality(pending) <= 1
    /\ \A k \in 1..Len(issued) :
          /\ k > 1 => issued[k - 1] \notin pending
          /\ issued[k] # "close" =>
                /\ issued[k] = Program[k]
                /\ k > 1 => err # issued[k - 1]
          /\ issued[k] = "close" => k = Len(issued)

\* A later operation is in flight after the earlier ones completed.
C9_Witness ==
    /\ pending = {"deleteOne"}
    /\ Len(issued) = Position("deleteOne")
    /\ err = "none"

----------------------------------------------------------------------------
(* C10: a run changes the documents only through updateOne and deleteOne:  *)
(* at most one document, of the updated title, has its price set to the    *)
(* new price and nothing else changed; at most one document, of the        *)
(* deleted title, is removed; none is inserted; every other document is    *)
(* as it was; and every other step leaves the documents unchanged.         *)
Changed == { id \in Ids(coll) : DocOf(coll, id) # DocOf(coll0, id) }

Removed == Ids(coll0) \ Ids(coll)

C10_FrameInv ==
    /\ Ids(coll) \subseteq Ids(coll0)
    /\ Cardinality(Ids(coll)) = Len(coll)
    /\ Cardinality(Changed) <= 1
    /\ \A id \in Changed :
          /\ DocOf(coll0, id).title = GatsbyTitle
          /\ DocOf(coll, id) = [ DocOf(coll0, id) EXCEPT !.price = NewPrice ]
    /\ Cardinality(Removed) <= 1
    /\ \A id \in Removed : DocOf(coll0, id).title = CatcherTitle

C10_Frame ==
    /\ []C10_FrameInv
    /\ [][pc \notin {"updateOne", "deleteOne"} => coll' = coll]_vars

\* A run has ended after changing one document and removing another.
C10_Witness ==
    /\ pc = "done"
    /\ err = "none"
    /\ Cardinality(Changed) = 1
    /\ Cardinality(Removed) = 1
    /\ Len(coll) > 2

====
